---- MODULE Spec2Model ----
(***************************************************************************)
(* Data Catalogue Engine (catalogue_engine.py): the profiling engine as a  *)
(* state machine.  Each behaviour exercises one entry point of the module  *)
(* (classify_pii, profile_column, profile_table, generate_quality_report,  *)
(* main) on inputs drawn from bounded sets.                                *)
(*                                                                         *)
(* Representation.  A Python str is a sequence of one-character strings.   *)
(* A column (list of str) is a sequence of runs [v |-> str, n |-> count]:  *)
(* the run stands for n consecutive copies of v, so that columns longer    *)
(* than the type inferencer's samples (up to 100 values) stay enumerable.  *)
(* A float is an integer number of hundredths, or Huge (a finite float     *)
(* whose distance to any other value of the column squares to more than    *)
(* the largest float).  Percentages and scores are kept in the unit of     *)
(* their last rounded decimal (null_rate 100.0 is 10000, a quality score   *)
(* of 65.0 is 650).                                                        *)
(***************************************************************************)
EXTENDS Integers, Sequences, FiniteSets, TLC

VARIABLES
  entry,        \* the function this behaviour calls
  pc,           \* "call", then "return" or "raise"; main: "loop", then "done" or "raise"
  col_name,     \* argument of classify_pii and profile_column
  values,       \* argument of profile_column
  total_rows,   \* argument of profile_column
  file,         \* the file profile_table reads
  all_profiles, \* argument of generate_quality_report; main's list of the same name
  data_dir,     \* main: the file of each table of the table map
  position,     \* main: index of the table the loop is at
  out_dir,      \* main: what has been written
  result        \* the value returned

vars == <<entry, pc, col_name, values, total_rows, file, all_profiles, data_dir,
          position, out_dir, result>>

(***************************************************************************)
(* str operations                                                          *)
(***************************************************************************)
ASCII_UPPER ==
  <<"A","B","C","D","E","F","G","H","I","J","K","L","M",
    "N","O","P","Q","R","S","T","U","V","W","X","Y","Z">>

ASCII_LOWER ==
  <<"a","b","c","d","e","f","g","h","i","j","k","l","m",
    "n","o","p","q","r","s","t","u","v","w","x","y","z">>

DIGITS == {"0","1","2","3","4","5","6","7","8","9"}

WHITESPACE == {" ", "\t"}

\* str.lower() on one character
LOWER_OF ==
  [c \in {ASCII_UPPER[i] : i \in 1..26} |->
     ASCII_LOWER[CHOOSE i \in 1..26 : ASCII_UPPER[i] = c]]

lower_char(c) == IF c \in DOMAIN LOWER_OF THEN LOWER_OF[c] ELSE c

\* str.lower()
lower(s) == [i \in 1..Len(s) |-> lower_char(s[i])]

\* re.search(pat, s) for a pattern without metacharacters (every pattern of
\* PII_PATTERNS is one): pat occurs somewhere in s
re_search(pat, s) ==
  \E i \in 0..(Len(s) - Len(pat)) : \A j \in 1..Len(pat) : s[i + j] = pat[j]

\* bool(v and v.strip()): v is neither empty nor made of whitespace only
\* a plausible slip: the test without the strip
non_blank_unstripped(v) == Len(v) > 0

non_blank(v) == Len(v) > 0 /\ \E i \in 1..Len(v) : v[i] \notin WHITESPACE

(***************************************************************************)
(* Static knowledge bases                                                  *)
(***************************************************************************)
\* PII_PATTERNS, in the dict's insertion order (the order classify_pii
\* iterates it in)
PII_PATTERNS ==
  <<
   [level |-> "PII",
    columns |-> {
      <<"f","i","r","s","t","_","n","a","m","e">>, <<"l","a","s","t","_","n","a","m","e">>,
      <<"e","m","a","i","l">>, <<"p","h","o","n","e">>,
      <<"a","d","d","r","e","s","s","_","l","i","n","e","1">>,
      <<"d","a","t","e","_","o","f","_","b","i","r","t","h">>,
      <<"C","U","S","T","_","N","A","M","E">>, <<"A","D","D","R","1">>,
      <<"E","M","A","I","L">>, <<"P","H","O","N","E">>,
      <<"P","e","r","s","o","n","E","m","a","i","l">>, <<"P","h","o","n","e">>,
      <<"M","a","i","l","i","n","g","S","t","r","e","e","t">>,
      <<"F","U","L","L","_","N","A","M","E">>, <<"E","M","A","I","L","_","A","D","D","R">>,
      <<"P","H","O","N","E","_","N","U","M">>, <<"S","T","R","E","E","T","_","A","D","D","R">>,
      <<"F","i","r","s","t","N","a","m","e">>, <<"L","a","s","t","N","a","m","e">>},
    patterns |-> <<
      <<"e","m","a","i","l">>, <<"p","h","o","n","e">>, <<"a","d","d","r">>,
      <<"n","a","m","e">>, <<"b","i","r","t","h">>, <<"d","o","b">>>>],
   [level |-> "SPII",
    columns |-> {
      <<"s","s","n","_","h","a","s","h">>, <<"f","i","c","o","_","s","c","o","r","e">>,
      <<"a","n","n","u","a","l","_","i","n","c","o","m","e">>, <<"F","I","C","O">>,
      <<"C","R","E","D","I","T","_","S","C","O","R","E">>,
      <<"r","i","s","k","_","t","i","e","r">>,
      <<"A","n","n","u","a","l","_","R","e","v","e","n","u","e","_","_","c">>,
      <<"R","I","S","K","_","R","A","T","I","N","G">>,
      <<"p","r","o","b","a","b","i","l","i","t","y","_","o","f","_","d","e","f","a","u","l","t">>,
      <<"l","o","s","s","_","g","i","v","e","n","_","d","e","f","a","u","l","t">>},
    patterns |-> <<
      <<"s","s","n">>, <<"f","i","c","o">>, <<"i","n","c","o","m","e">>,
      <<"c","r","e","d","i","t","_","s","c","o","r","e">>, <<"r","i","s","k">>>>],
   [level |-> "CONFIDENTIAL",
    columns |-> {
      <<"a","c","c","o","u","n","t","_","n","u","m","b","e","r">>,
      <<"a","c","c","o","u","n","t","_","i","d">>,
      <<"c","u","s","t","o","m","e","r","_","i","d">>, <<"b","a","l","a","n","c","e">>,
      <<"c","r","e","d","i","t","_","l","i","m","i","t">>, <<"a","p","r">>,
      <<"a","m","o","u","n","t">>, <<"l","o","s","s","_","a","m","o","u","n","t">>,
      <<"r","i","s","k","_","s","c","o","r","e">>, <<"C","I","F","_","N","U","M">>,
      <<"A","c","c","o","u","n","t","I","d">>, <<"P","A","R","T","Y","_","I","D">>,
      <<"c","o","m","p","o","s","i","t","e","_","s","c","o","r","e">>,
      <<"e","x","p","e","c","t","e","d","_","l","o","s","s">>},
    patterns |-> <<
      <<"a","c","c","o","u","n","t">>, <<"b","a","l","a","n","c","e">>,
      <<"l","i","m","i","t">>, <<"a","m","o","u","n","t">>, <<"s","c","o","r","e">>>>]
  >>

\* the keys of GLOSSARY (the entries' texts are not modelled)
GLOSSARY ==
  {
    <<"c","u","s","t","o","m","e","r","_","i","d">>,
    <<"f","i","c","o","_","s","c","o","r","e">>, <<"s","e","g","m","e","n","t">>,
    <<"r","i","s","k","_","t","i","e","r">>, <<"b","a","l","a","n","c","e">>,
    <<"t","r","a","n","s","a","c","t","i","o","n","_","i","d">>,
    <<"m","c","c","_","c","o","d","e">>,
    <<"d","a","y","s","_","p","a","s","t","_","d","u","e">>,
    <<"p","r","o","b","a","b","i","l","i","t","y","_","o","f","_","d","e","f","a","u","l","t">>,
    <<"c","o","m","p","o","s","i","t","e","_","s","c","o","r","e">>,
    <<"r","e","w","a","r","d","s","_","e","a","r","n","e","d">>,
    <<"a","c","q","u","i","s","i","t","i","o","n","_","c","h","a","n","n","e","l">>,
    <<"d","i","g","i","t","a","l","_","e","n","r","o","l","l","e","d">>,
    <<"f","r","a","u","d","_","f","l","a","g">>, <<"a","l","e","r","t","_","t","y","p","e">>,
    <<"p","a","r","t","n","e","r","_","i","d">>,
    <<"i","n","t","e","r","c","h","a","n","g","e","_","r","e","v","e","n","u","e">>}

(***************************************************************************)
(* Columns as runs, floats, rounding                                       *)
(***************************************************************************)
RECURSIVE run_total(_)
\* len() of the list a sequence of runs stands for
run_total(runs) ==
  IF runs = <<>> THEN 0 ELSE Head(runs).n + run_total(Tail(runs))

\* a plausible slip: the slice forgotten, every element inspected
whole_column(runs, k) == runs

\* the runs that begin among the first k elements of xs
head_runs(runs, k) ==
  SelectSeq([j \in 1..Len(runs) |->
               [v |-> runs[j].v, n |-> runs[j].n,
                head |-> run_total(SubSeq(runs, 1, j - 1)) < k]],
            LAMBDA r : r.head)

\* the distinct values among the first k elements, xs[:k]
head_values(runs, k) ==
  {runs[i].v : i \in {j \in 1..Len(runs) : run_total(SubSeq(runs, 1, j - 1)) < k}}

\* set(xs)
value_set(runs) == {runs[i].v : i \in 1..Len(runs)}

\* Counter(xs)[u]
occurrences(runs, u) ==
  run_total(SelectSeq(runs, LAMBDA r : r.v = u))

\* index of the first run holding u: the insertion order of Counter(xs)
first_seen(runs, u) == CHOOSE i \in 1..Len(runs) : runs[i].v = u /\ \A j \in 1..(i - 1) : runs[j].v # u

\* round(num / den, digits) with num / den already scaled by 10^digits:
\* the nearest integer, a tie going to the even one
round_half_even(num, den) ==
  LET q == num \div den
      r == num % den
  IN IF 2 * r < den THEN q
     ELSE IF 2 * r > den THEN q + 1
     ELSE IF q % 2 = 0 THEN q ELSE q + 1

RECURSIVE digits_value(_)
\* the integer a string of decimal digits denotes
digits_value(s) ==
  IF s = <<>> THEN 0
  ELSE 10 * digits_value(SubSeq(s, 1, Len(s) - 1))
       + (CHOOSE d \in 0..9 : <<"0","1","2","3","4","5","6","7","8","9">>[d + 1] = s[Len(s)])

all_digits(s) == Len(s) > 0 /\ \A i \in 1..Len(s) : s[i] \in DIGITS

RECURSIVE pow10(_)
pow10(e) == IF e = 0 THEN 1 ELSE 10 * pow10(e - 1)

\* least decimal exponent from which the square of a one-digit mantissa
\* exceeds the largest float (about 1.8e308), so that x ** 2 raises
HUGE_EXP == 155

\* largest decimal exponent of a finite float
MAX_EXP == 308

FloatError == [ok |-> FALSE, h |-> 0, d |-> 1, x |-> 0]

Fin(x) == [ok |-> TRUE, h |-> 0, d |-> 1, x |-> x]

\* (h / d) * 1e200
Huge(h, d) == [ok |-> TRUE, h |-> h, d |-> d, x |-> 0]

\* inf, -inf or nan.  Only infer_type meets one: the columns profile_column
\* is exercised on hold none.
NonFinite == [ok |-> TRUE, h |-> 0, d |-> 0, x |-> 0]

\* the spellings float() reads as inf or nan, lowercased
NON_FINITE_WORDS ==
  { <<"i","n","f">>, <<"i","n","f","i","n","i","t","y">>, <<"n","a","n">> }

\* index of the first character of s that is in chars, 0 when there is none
index_of(s, chars) ==
  IF \E i \in 1..Len(s) : s[i] \in chars
  THEN CHOOSE i \in 1..Len(s) : s[i] \in chars /\ \A j \in 1..(i - 1) : s[j] \notin chars
  ELSE 0

\* the float of sign * hundredths/100 * 10^e
float_scaled(sign, hundredths, e, one_digit) ==
  IF hundredths = 0 THEN Fin(0)
  ELSE IF e >= HUGE_EXP /\ e <= MAX_EXP /\ one_digit THEN Huge(sign, 1)
  ELSE Fin(sign * hundredths * pow10(e))

\* the literal's parts: integer digits, fraction digits, exponent digits
float_checked(sign, ipart, fpart, has_exp, expo) ==
  IF /\ all_digits(ipart)
     /\ (fpart # <<>> => all_digits(fpart) /\ Len(fpart) <= 2)
     /\ (has_exp => all_digits(expo))
  THEN float_scaled(sign,
                    100 * digits_value(ipart)
                    + (IF Len(fpart) = 1 THEN 10 * digits_value(fpart)
                       ELSE digits_value(fpart)),
                    digits_value(expo),
                    Len(ipart) = 1 /\ fpart = <<>>)
  ELSE FloatError

float_mantissa(sign, mant, dot, has_exp, expo) ==
  float_checked(sign,
                IF dot = 0 THEN mant ELSE SubSeq(mant, 1, dot - 1),
                IF dot = 0 THEN <<>> ELSE SubSeq(mant, dot + 1, Len(mant)),
                has_exp, expo)

float_exponent(sign, body, epos) ==
  float_mantissa(sign,
                 IF epos = 0 THEN body ELSE SubSeq(body, 1, epos - 1),
                 index_of(IF epos = 0 THEN body ELSE SubSeq(body, 1, epos - 1), {"."}),
                 epos # 0,
                 IF epos = 0 THEN <<>> ELSE SubSeq(body, epos + 1, Len(body)))

float_unsigned(sign, body) ==
  IF lower(body) \in NON_FINITE_WORDS THEN NonFinite
  ELSE float_exponent(sign, body, index_of(body, {"e", "E"}))

\* float(v) for literals [sign] digits [. [digit [digit]]] [e digits] and
\* for inf, infinity and nan in any case; anything else met in the model's
\* columns raises ValueError (FloatError).  A finite value is kept in
\* hundredths.
float(v) ==
  IF Len(v) > 0 /\ v[1] \in {"+", "-"}
  THEN float_unsigned(IF v[1] = "-" THEN -1 ELSE 1, Tail(v))
  ELSE float_unsigned(1, v)

\* a <= b on floats (every Huge of the model is positive)
float_le(a, b) ==
  IF a.h = 0 /\ b.h = 0 THEN a.x <= b.x
  ELSE IF a.h = 0 THEN TRUE
  ELSE IF b.h = 0 THEN FALSE
  ELSE a.h * b.d <= b.h * a.d

\* int(f) raises: OverflowError on an infinity, ValueError on nan
int_raises(f) == f.d = 0

\* f == int(f), for a finite f
is_integral(f) == f.h # 0 \/ f.x % 100 = 0

(***************************************************************************)
(* classify_pii                                                            *)
(***************************************************************************)
\* one iteration of classify_pii's loop: the level's exact-name test on
\* col_name, then its patterns against cn, the lowercased name
level_matches(rules, col, cn) ==
  \/ col \in rules.columns
  \/ \E k \in 1..Len(rules.patterns) : re_search(rules.patterns[k], cn)

\* the level of the first iteration that returns, PUBLIC when none does
first_level(hit) ==
  IF \E i \in 1..Len(PII_PATTERNS) : hit[i]
  THEN PII_PATTERNS[CHOOSE i \in 1..Len(PII_PATTERNS) :
                       hit[i] /\ \A j \in 1..(i - 1) : ~hit[j]].level
  ELSE "PUBLIC"

\* a plausible slip: the last matching level returned instead of the first
classify_pii_last_match(col) ==
  LET hit == [i \in 1..Len(PII_PATTERNS) |-> level_matches(PII_PATTERNS[i], col, lower(col))]
  IN IF \E i \in 1..Len(PII_PATTERNS) : hit[i]
     THEN PII_PATTERNS[CHOOSE i \in 1..Len(PII_PATTERNS) :
                          hit[i] /\ \A j \in (i + 1)..Len(PII_PATTERNS) : ~hit[j]].level
     ELSE "PUBLIC"

classify_pii(col) ==
  first_level([i \in 1..Len(PII_PATTERNS) |-> level_matches(PII_PATTERNS[i], col, lower(col))])

(***************************************************************************)
(* infer_type                                                              *)
(***************************************************************************)
\* [v for v in values if v and v.strip()]
non_empty_of(vals) == SelectSeq(vals, LAMBDA r : non_blank(r.v))

\* the set literal of the boolean check
BOOLS ==
  { <<"t","r","u","e">>, <<"f","a","l","s","e">>, <<"T","r","u","e">>,
    <<"F","a","l","s","e">>, <<"T","R","U","E">>, <<"F","A","L","S","E">>,
    <<"1">>, <<"0">>, <<"y","e","s">>, <<"n","o">> }

\* re.match(r"^\d{4}-\d{2}-\d{2}", v): the prefix both date patterns share
date_prefix(v) ==
  /\ Len(v) >= 10
  /\ \A i \in {1, 2, 3, 4, 6, 7, 9, 10} : v[i] \in DIGITS
  /\ v[5] = "-" /\ v[8] = "-"

\* re.match(r"^\d{4}-\d{2}-\d{2}$", v)
match_date(v) == date_prefix(v) /\ Len(v) = 10

\* re.match(r"^\d{4}-\d{2}-\d{2}T", v)
match_datetime(v) == date_prefix(v) /\ Len(v) >= 11 /\ v[11] = "T"

\* re.match(r'^[A-Z]{2,5}[-_]\d+', v)
match_identifier(v) ==
  \E k \in 2..5 :
    /\ Len(v) >= k + 2
    /\ \A i \in 1..k : \E u \in 1..26 : ASCII_UPPER[u] = v[i]
    /\ v[k + 1] \in {"-", "_"}
    /\ v[k + 2] \in DIGITS

\* sample sizes of the checks
BOOL_SAMPLE == 50
DATE_SAMPLE == 20
NUMERIC_SAMPLE == 100
TEXT_SAMPLE == 10

\* no type: the check did not return
NoType == ""

\* the "Check numeric" block on nums = [float(v) for v in non_empty[:100]]:
\* the type it returns, NoType when float() or int() raises.  all() stops
\* at the first value that differs from its truncation, so int() is not
\* applied to the values after it.
numeric_type(nums) ==
  IF \E i \in 1..Len(nums) : ~nums[i].ok THEN NoType
  ELSE IF \A i \in 1..Len(nums) : ~int_raises(nums[i]) /\ is_integral(nums[i])
  THEN "integer"
  ELSE IF int_raises(nums[CHOOSE i \in 1..Len(nums) :
                            /\ int_raises(nums[i]) \/ ~is_integral(nums[i])
                            /\ \A j \in 1..(i - 1) :
                                 ~int_raises(nums[j]) /\ is_integral(nums[j])])
  THEN NoType
  ELSE "decimal"

\* nums of the "Check numeric" block, a float for each run of the sample
sample_floats(non_empty) ==
  [i \in 1..Len(head_runs(non_empty, NUMERIC_SAMPLE)) |->
     float(head_runs(non_empty, NUMERIC_SAMPLE)[i].v)]

infer_type(vals) ==
  LET non_empty == non_empty_of(vals)
  IN IF non_empty = <<>> THEN "unknown"
     ELSE IF \A v \in head_values(non_empty, BOOL_SAMPLE) : v \in BOOLS THEN "boolean"
     ELSE IF \/ \A v \in head_values(non_empty, DATE_SAMPLE) : match_date(v)
             \/ \A v \in head_values(non_empty, DATE_SAMPLE) : match_datetime(v)
          THEN IF "T" \in {non_empty[1].v[i] : i \in 1..Len(non_empty[1].v)}
               THEN "datetime" ELSE "date"
     ELSE IF numeric_type(sample_floats(non_empty)) # NoType
          THEN numeric_type(sample_floats(non_empty))
     ELSE IF \A v \in head_values(non_empty, TEXT_SAMPLE) : match_identifier(v)
          THEN "identifier"
     ELSE IF \E v \in head_values(non_empty, TEXT_SAMPLE) : "@" \in {v[i] : i \in 1..Len(v)}
          THEN "email"
     ELSE IF \E v \in head_values(non_empty, TEXT_SAMPLE) : v[1] = "+"
          THEN "phone"
     ELSE "string"

(***************************************************************************)
(* profile_column                                                          *)
(***************************************************************************)
MASKED == <<"*","*","*","M","A","S","K","E","D","*","*","*">>

NoKeys == [k \in {} |-> 0]

RECURSIVE seq_sum(_)
\* sum(xs)
seq_sum(xs) == IF xs = <<>> THEN 0 ELSE Head(xs) + seq_sum(Tail(xs))

\* sum(nums) / len(nums) rounded to two decimals; with a Huge value among
\* nums the finite ones vanish in the sum
float_mean(nums, cnt, huge_n) ==
  IF huge_n > 0 THEN Huge(huge_n, seq_sum(cnt))
  ELSE Fin(round_half_even(seq_sum([i \in 1..Len(nums) |-> nums[i].x * cnt[i]]),
                           seq_sum(cnt)))

\* sorted(nums)[len(nums) // 2]
float_median(nums, cnt, mid) ==
  nums[CHOOSE i \in 1..Len(nums) :
         /\ seq_sum([j \in 1..Len(nums) |->
                       IF ~float_le(nums[i], nums[j]) THEN cnt[j] ELSE 0]) <= mid
         /\ mid < seq_sum([j \in 1..Len(nums) |->
                             IF float_le(nums[j], nums[i]) THEN cnt[j] ELSE 0])]

\* round(math.sqrt(sq_sum / n), 2) in hundredths, sq_sum in squared hundredths
sqrt_rounded(sq_sum, n, most) ==
  CHOOSE s \in 0..most :
    /\ (s = 0 \/ (2 * s - 1) * (2 * s - 1) * n <= 4 * sq_sum)
    /\ 4 * sq_sum < (2 * s + 1) * (2 * s + 1) * n

\* the keys set from profile["min"] on.  (x - mean) ** 2 raises
\* OverflowError when x - mean is a nonzero multiple of 1e200; the bare
\* except then leaves the four keys already set.
stats_keys(nums, cnt, lo, hi, mean) ==
  IF \E i \in 1..Len(nums) : nums[i].h * mean.d # mean.h * nums[i].d
  THEN [min |-> lo, max |-> hi, mean |-> mean,
        median |-> float_median(nums, cnt, seq_sum(cnt) \div 2)]
  ELSE [min |-> lo, max |-> hi, mean |-> mean,
        median |-> float_median(nums, cnt, seq_sum(cnt) \div 2),
        std_dev |-> Fin(sqrt_rounded(
                      seq_sum([i \in 1..Len(nums) |->
                                 (nums[i].x - mean.x) * (nums[i].x - mean.x) * cnt[i]]),
                      seq_sum(cnt), hi.x - lo.x + 1))]

\* nums = [float(v) for v in non_empty] and what follows it
parsed_stats(nums, cnt) ==
  IF \E i \in 1..Len(nums) : ~nums[i].ok THEN NoKeys
  ELSE stats_keys(nums, cnt,
                  nums[CHOOSE i \in 1..Len(nums) : \A j \in 1..Len(nums) : float_le(nums[i], nums[j])],
                  nums[CHOOSE i \in 1..Len(nums) : \A j \in 1..Len(nums) : float_le(nums[j], nums[i])],
                  float_mean(nums, cnt,
                             seq_sum([i \in 1..Len(nums) |->
                                        IF nums[i].h # 0 THEN cnt[i] ELSE 0])))

\* the "Numeric stats" block: the keys it has set when it completes or when
\* its bare except swallows the first exception
numeric_stats(non_empty) ==
  parsed_stats([i \in 1..Len(non_empty) |-> float(non_empty[i].v)],
               [i \in 1..Len(non_empty) |-> non_empty[i].n])

\* Counter(non_empty).most_common(8) as value/count/pct entries: by count,
\* largest first, equal counts in order of first occurrence; pct in tenths
top_values_of(non_empty) ==
  LET vs      == value_set(non_empty)
      n       == run_total(non_empty)
      c(u)    == occurrences(non_empty, u)
      rank(u) == 1 + Cardinality({w \in vs :
                       \/ c(w) > c(u)
                       \/ c(w) = c(u) /\ first_seen(non_empty, w) < first_seen(non_empty, u)})
      k       == IF Cardinality(vs) < 8 THEN Cardinality(vs) ELSE 8
  IN [i \in 1..k |->
        LET u == CHOOSE w \in vs : rank(w) = i
        IN [value |-> u, count |-> c(u), pct |-> round_half_even(c(u) * 1000, n)]]

\* the orders in which iterating set(non_empty) can yield its elements
set_orders(vs) ==
  {o \in [1..Cardinality(vs) -> vs] : \A i, j \in 1..Cardinality(vs) : o[i] = o[j] => i = j}

\* a plausible slip: the null penalty without its cap
quality_score_uncapped(null_count, rows, dtype) ==
  IF null_count > 0
  THEN round_half_even(1000 * rows - null_count * 500
                       - (IF dtype = "unknown" THEN 100 ELSE 0) * rows, rows)
  ELSE 1000 - (IF dtype = "unknown" THEN 100 ELSE 0)

\* qs of the "Quality score" block, rounded to one decimal, in tenths
quality_score_of(null_count, rows, dtype) ==
  LET unknown == IF dtype = "unknown" THEN 100 ELSE 0
  IN IF null_count > 0
     THEN LET scaled == IF null_count * 500 < 250 * rows THEN null_count * 500 ELSE 250 * rows
          IN round_half_even(1000 * rows - scaled - unknown * rows, rows)
     ELSE 1000 - unknown

\* the set literal of the top-values test, ("boolean",)
UNMASKED_TYPES == {"boolean"}

\* min(a, b)
min_of(a, b) == IF a < b THEN a ELSE b

\* the "String length stats" block
length_stats(non_empty, lengths) ==
  [min_length |-> CHOOSE l \in {lengths[i] : i \in 1..Len(lengths)} :
                    \A i \in 1..Len(lengths) : l <= lengths[i],
   max_length |-> CHOOSE l \in {lengths[i] : i \in 1..Len(lengths)} :
                    \A i \in 1..Len(lengths) : l >= lengths[i],
   avg_length |-> round_half_even(
                    10 * seq_sum([i \in 1..Len(non_empty) |-> lengths[i] * non_empty[i].n]),
                    run_total(non_empty))]

\* the "Top values" block
top_values_block(non_empty, dtype, pii) ==
  IF pii = "PUBLIC" \/ dtype \in UNMASKED_TYPES
  THEN [top_values |-> top_values_of(non_empty)]
  ELSE IF pii \in {"PII", "SPII"}
  THEN [top_values |-> <<[value |-> MASKED, count |-> run_total(non_empty), pct |-> 1000]>>]
  ELSE NoKeys

\* the "Sample values" block
sample_values_of(non_empty, pii, order) ==
  IF pii \in {"PII", "SPII"}
  THEN [i \in 1..min_of(3, run_total(non_empty)) |-> MASKED]
  ELSE SubSeq(order, 1, min_of(5, Len(order)))

\* a plausible slip: a column without values counted as not unique
is_unique_nonzero(cardinality, count) == cardinality = count /\ count # 0

\* is_unique
is_unique_of(cardinality, count) == cardinality = count

\* null_count
null_count_of(rows, count) == rows - count

\* the profile dict, from its literal to the glossary lookup
profile_of(col, rows, order, non_empty, dtype, pii) ==
  [column_name        |-> col,
   data_type          |-> dtype,
   pii_classification |-> pii,
   total_count        |-> rows,
   null_count         |-> null_count_of(rows, run_total(non_empty)),
   null_rate          |-> IF rows > 0
                          THEN round_half_even(
                                 null_count_of(rows, run_total(non_empty)) * 10000, rows)
                          ELSE 0,
   distinct_count     |-> Cardinality(value_set(non_empty)),
   cardinality_ratio  |-> IF rows > 0
                          THEN round_half_even(Cardinality(value_set(non_empty)) * 10000, rows)
                          ELSE 0,
   is_unique          |-> is_unique_of(Cardinality(value_set(non_empty)), run_total(non_empty)),
   sample_values      |-> sample_values_of(non_empty, pii, order),
   quality_score      |-> quality_score_of(null_count_of(rows, run_total(non_empty)),
                                           rows, dtype)]
  @@ (IF dtype \in {"integer", "decimal"} THEN numeric_stats(non_empty) ELSE NoKeys)
  @@ top_values_block(non_empty, dtype, pii)
  @@ (IF dtype \in {"string", "email", "phone", "identifier"} /\ non_empty # <<>>
      THEN length_stats(non_empty, [i \in 1..Len(non_empty) |-> Len(non_empty[i].v)])
      ELSE NoKeys)
  @@ (IF col \in GLOSSARY THEN [glossary |-> col] ELSE NoKeys)

\* profile_column(col_name, values, total_rows); order is the order in which
\* list(unique_vals) yields the set's elements
profile_column(col, vals, rows, order) ==
  profile_of(col, rows, order, non_empty_of(vals), infer_type(vals), classify_pii(col))

(***************************************************************************)
(* profile_table                                                           *)
(*                                                                         *)
(* A CSV file is [exists, header, fieldnames, rows]: header is FALSE for a *)
(* file without a first line (csv.DictReader.fieldnames is then None),     *)
(* rows are the data lines, each a sequence of cells as wide as            *)
(* fieldnames.  The profile keeps the keys the aggregates read; path,      *)
(* size, timestamp, lineage and tags are left out.                         *)
(***************************************************************************)
\* [row.get(col, "") for row in rows] for the c-th column
column_values(csv, c) == [r \in 1..Len(csv.rows) |-> [v |-> csv.rows[r][c], n |-> 1]]

\* "for col in columns" raises TypeError when columns is None
profile_table_raises(csv) == ~csv.header

\* Counter(cp["pii_classification"] for cp in col_profiles)
pii_summary_of(col_profiles) ==
  [l \in {col_profiles[c].pii_classification : c \in 1..Len(col_profiles)} |->
     Cardinality({c \in 1..Len(col_profiles) : col_profiles[c].pii_classification = l})]

\* round(avg_quality, 1) with the guard for no columns
table_quality(col_profiles) ==
  IF col_profiles # <<>>
  THEN round_half_even(
         seq_sum([c \in 1..Len(col_profiles) |-> col_profiles[c].quality_score]),
         Len(col_profiles))
  ELSE 0

\* the table_profile dict
table_profile_of(table_name, layer, rows, col_profiles) ==
  [table_name    |-> table_name,
   layer         |-> layer,
   total_rows    |-> rows,
   total_columns |-> Len(col_profiles),
   quality_score |-> table_quality(col_profiles),
   pii_summary   |-> pii_summary_of(col_profiles),
   columns       |-> col_profiles]

\* profile_table(table_name, file_path, layer) on a file it does not raise
\* on; orders[c] is the set iteration order met while profiling column c
profile_table(table_name, csv, layer, orders) ==
  table_profile_of(table_name, layer, Len(csv.rows),
                   [c \in 1..Len(csv.fieldnames) |->
                      profile_column(csv.fieldnames[c], column_values(csv, c),
                                     Len(csv.rows), orders[c])])

\* the iteration orders the columns of a file can meet
table_orders(csv) ==
  LET sets == [c \in 1..Len(csv.fieldnames) |->
                 set_orders(value_set(non_empty_of(column_values(csv, c))))]
  IN {o \in [1..Len(csv.fieldnames) -> UNION {sets[c] : c \in 1..Len(csv.fieldnames)}] :
        \A c \in 1..Len(csv.fieldnames) : o[c] \in sets[c]}

(***************************************************************************)
(* generate_quality_report, generate_glossary_export                       *)
(***************************************************************************)
\* a plausible slip: best first
sorted_by_score_descending(entries) ==
  LET pos(i) == 1 + Cardinality({j \in 1..Len(entries) :
                     \/ entries[j].score > entries[i].score
                     \/ entries[j].score = entries[i].score /\ j < i})
  IN [k \in 1..Len(entries) |-> entries[CHOOSE i \in 1..Len(entries) : pos(i) = k]]

\* sorted(entries, key=lambda x: x["score"]): ascending, stable
sorted_by_score(entries) ==
  LET pos(i) == 1 + Cardinality({j \in 1..Len(entries) :
                     \/ entries[j].score < entries[i].score
                     \/ entries[j].score = entries[i].score /\ j < i})
  IN [k \in 1..Len(entries) |-> entries[CHOOSE i \in 1..Len(entries) : pos(i) = k]]

\* sum(p["quality_score"] for p in profiles) / len(profiles), rounded to one
\* decimal
mean_quality(profiles) ==
  round_half_even(seq_sum([i \in 1..Len(profiles) |-> profiles[i].quality_score]),
                  Len(profiles))

\* "/ total_tables" raises ZeroDivisionError on an empty list
quality_report_raises(profiles) == Len(profiles) = 0

\* generate_quality_report(all_profiles) on a non-empty list (dates, company
\* and byte sizes left out)
generate_quality_report(profiles) ==
  LET idx     == 1..Len(profiles)
      layers  == {profiles[i].layer : i \in idx}
      levels  == UNION {DOMAIN profiles[i].pii_summary : i \in idx}
      of(l)   == SelectSeq(profiles, LAMBDA p : p.layer = l)
  IN [total_tables  |-> Len(profiles),
      total_rows    |-> seq_sum([i \in idx |-> profiles[i].total_rows]),
      total_columns |-> seq_sum([i \in idx |-> profiles[i].total_columns]),
      avg_quality_score |-> mean_quality(profiles),
      pii_column_distribution |->
        [l \in levels |->
           seq_sum([i \in idx |-> IF l \in DOMAIN profiles[i].pii_summary
                                  THEN profiles[i].pii_summary[l] ELSE 0])],
      layer_statistics |->
        [l \in layers |->
           [tables      |-> Len(of(l)),
            rows        |-> seq_sum([i \in 1..Len(of(l)) |-> of(l)[i].total_rows]),
            avg_quality |-> mean_quality(of(l))]],
      tables_by_quality |->
        sorted_by_score([i \in idx |-> [table |-> profiles[i].table_name,
                                        score |-> profiles[i].quality_score,
                                        layer |-> profiles[i].layer]])]

RECURSIVE found_in(_, _)
\* terms[key]["found_in"]: one entry per column named key, table by table
found_in(key, profiles) ==
  IF profiles = <<>> THEN <<>>
  ELSE [c \in 1..Cardinality({c \in 1..Len(Head(profiles).columns) :
                                Head(profiles).columns[c].column_name = key}) |->
          Head(profiles).table_name]
       \o found_in(key, Tail(profiles))

\* generate_glossary_export(all_profiles) as a mapping (its key order is not
\* modelled); the classification is the first column's
generate_glossary_export(profiles) ==
  LET cols == UNION {{profiles[i].columns[c] : c \in 1..Len(profiles[i].columns)} :
                       i \in 1..Len(profiles)}
      keys == {cp.column_name : cp \in {q \in cols : "glossary" \in DOMAIN q}}
      first(key) ==
        LET i == CHOOSE i \in 1..Len(profiles) :
                   /\ \E c \in 1..Len(profiles[i].columns) :
                        profiles[i].columns[c].column_name = key
                   /\ \A j \in 1..(i - 1) : \A c \in 1..Len(profiles[j].columns) :
                        profiles[j].columns[c].column_name # key
            c == CHOOSE c \in 1..Len(profiles[i].columns) :
                   /\ profiles[i].columns[c].column_name = key
                   /\ \A b \in 1..(c - 1) : profiles[i].columns[b].column_name # key
        IN profiles[i].columns[c]
  IN [key \in keys |->
        [glossary |-> key,
         found_in |-> found_in(key, profiles),
         pii_classification |-> first(key).pii_classification]]

\* column names the classifier is exercised on: every exact name of the rule
\* table and every glossary key, and names that reach a level only through a
\* pattern, only through their case, or not at all
ColumnNames ==
  UNION {PII_PATTERNS[i].columns : i \in 1..Len(PII_PATTERNS)} \cup GLOSSARY \cup
  { <<"m","a","i","l","i","n","g","s","t","r","e","e","t">>,
    <<"E","m","a","i","l","_","O","p","t","_","I","n">>,
    <<"e","m","a","i","l","_","o","p","t","_","i","n">>,
    <<"R","i","s","k","_","S","c","o","r","e">>,
    <<"A","P","R">>, <<"f","i","c","o">>, <<"C","r","e","d","i","t","L","i","m","i","t">>,
    <<"a","c","c","o","u","n","t","_","n","a","m","e">>,
    <<"i","n","c","o","m","e","_","b","a","l","a","n","c","e">>,
    <<"n","o","t","e","s">>, <<"s","t","a","t","u","s">>, <<"i","d">>, <<>> }

NoInput == <<>>

NoFile == [exists |-> FALSE, header |-> FALSE, fieldnames |-> <<>>, rows |-> <<>>]

\* a file of zero bytes
ZeroByteFile == [exists |-> TRUE, header |-> FALSE, fieldnames |-> <<>>, rows |-> <<>>]

NotWritten == [written |-> FALSE, value |-> <<>>]

EmptyOutDir ==
  [profiles |-> {}, master |-> NotWritten, report |-> NotWritten,
   glossary |-> NotWritten, lineage |-> FALSE]

\* the variables an entry point does not use
IdleColumn == col_name = <<>> /\ values = <<>> /\ total_rows = 0
IdleTable  == file = NoFile
IdleMain   == data_dir = <<>> /\ position = 0 /\ out_dir = EmptyOutDir

(***************************************************************************)
(* Entry point: classify_pii(col_name)                                     *)
(***************************************************************************)
InitClassify ==
  /\ entry = "classify_pii"
  /\ pc = "call"
  /\ col_name \in ColumnNames
  /\ values = <<>> /\ total_rows = 0
  /\ IdleTable /\ IdleMain /\ all_profiles = <<>>
  /\ result = NoInput

ClassifyPii ==
  /\ entry = "classify_pii"
  /\ pc = "call"
  /\ result' = classify_pii(col_name)
  /\ pc' = "return"
  /\ UNCHANGED <<entry, col_name, values, total_rows, file, all_profiles, data_dir,
                 position, out_dir>>

SpecClassify == InitClassify /\ [][ClassifyPii]_vars

(***************************************************************************)
(* Entry point: infer_type(values)                                         *)
(***************************************************************************)
\* most runs a column is made of
MaxRuns == 2

\* values the inferencer is exercised on: blank ones, boolean tokens in a
\* listed and in an unlisted spelling, an integer, a decimal, an infinity,
\* a date, a datetime, an identifier, an email, a phone number, text
InferValues ==
  { <<>>, <<" ">>, <<"t","r","u","e">>, <<"Y","e","s">>, <<"2">>, <<"1",".","5">>,
    <<"i","n","f">>,
    <<"2","0","2","4","-","0","1","-","0","1">>,
    <<"2","0","2","4","-","0","1","-","0","1","T","0","0">>,
    <<"A","B","-","1">>, <<"a","@","b">>, <<"+","1","-","5">>, <<"a","b","c">> }

\* lengths of a run: one value, or as many as the sample of the check the
\* value passes
sample_lengths(v) ==
  IF v \in BOOLS THEN {1, BOOL_SAMPLE}
  ELSE IF date_prefix(v) THEN {1, DATE_SAMPLE}
  ELSE IF float(v).ok /\ ~int_raises(float(v)) THEN {1, NUMERIC_SAMPLE}
  ELSE IF match_identifier(v) \/ v = <<"a","b","c">> THEN {1, TEXT_SAMPLE}
  ELSE {1}

InferRuns == UNION {{[v |-> u, n |-> k] : k \in sample_lengths(u)} : u \in InferValues}

InferColumns == UNION {[1..k -> InferRuns] : k \in 0..MaxRuns}

InitInferType ==
  /\ entry = "infer_type"
  /\ pc = "call"
  /\ values \in InferColumns
  /\ col_name = <<>> /\ total_rows = 0
  /\ IdleTable /\ IdleMain /\ all_profiles = <<>>
  /\ result = NoInput

InferType ==
  /\ entry = "infer_type"
  /\ pc = "call"
  /\ result' = infer_type(values)
  /\ pc' = "return"
  /\ UNCHANGED <<entry, col_name, values, total_rows, file, all_profiles, data_dir,
                 position, out_dir>>

SpecInferType == InitInferType /\ [][InferType]_vars

(***************************************************************************)
(* Entry point: profile_column(col_name, values, total_rows)               *)
(***************************************************************************)
\* values the profiled columns are made of: empty, whitespace only, a
\* boolean token, an integer, a decimal, a float too large to square, text
ColumnValues ==
  { <<>>, <<" ">>, <<"t","r","u","e">>, <<"2">>, <<"1",".","5">>,
    <<"1","e","2","0","0">>, <<"a","b","c">> }

\* lengths of a run: one value, or as many as the largest sample of
\* infer_type; ten for a blank value.  A Huge value stays single: the sum of
\* several is rounded, which floats in hundredths do not model.
run_lengths(v) ==
  IF \A i \in 1..Len(v) : v[i] = " " THEN {1, 10}
  ELSE IF float(v).ok /\ float(v).h # 0 THEN {1}
  ELSE {1, NUMERIC_SAMPLE}

Runs == UNION {{[v |-> u, n |-> k] : k \in run_lengths(u)} : u \in ColumnValues}

Columns == UNION {[1..k -> Runs] : k \in 0..MaxRuns}

\* one column name per classification; two of them are glossary keys
ProfiledNames ==
  { <<"e","m","a","i","l">>, <<"f","i","c","o","_","s","c","o","r","e">>,
    <<"b","a","l","a","n","c","e">>, <<"n","o","t","e","s">> }

InitProfileColumn ==
  /\ entry = "profile_column"
  /\ pc = "call"
  /\ col_name \in ProfiledNames
  /\ values \in Columns
  /\ total_rows \in {run_total(values), run_total(values) + 1}
  /\ IdleTable /\ IdleMain /\ all_profiles = <<>>
  /\ result = NoInput

ProfileColumn ==
  /\ entry = "profile_column"
  /\ pc = "call"
  /\ \E order \in set_orders(value_set(non_empty_of(values))) :
       result' = profile_column(col_name, values, total_rows, order)
  /\ pc' = "return"
  /\ UNCHANGED <<entry, col_name, values, total_rows, file, all_profiles, data_dir,
                 position, out_dir>>

SpecProfileColumn == InitProfileColumn /\ [][ProfileColumn]_vars

(***************************************************************************)
(* Entry point: profile_table(table_name, file_path, layer)                *)
(***************************************************************************)
\* most data lines of a file
MaxTableRows == 2

TableHeaders ==
  { <<>>, << <<"n","o","t","e","s">> >>,
    << <<"e","m","a","i","l">>, <<"b","a","l","a","n","c","e">> >> }

TableCells == { <<>>, <<"2">>, <<"a","b","c">> }

TableFiles ==
  {ZeroByteFile} \cup
  UNION {{[exists |-> TRUE, header |-> TRUE, fieldnames |-> f, rows |-> r] :
            r \in UNION {[1..k -> [1..Len(f) -> TableCells]] : k \in 0..MaxTableRows}} :
         f \in TableHeaders}

InitProfileTable ==
  /\ entry = "profile_table"
  /\ pc = "call"
  /\ file \in TableFiles
  /\ IdleColumn /\ IdleMain /\ all_profiles = <<>>
  /\ result = NoInput

ProfileTable ==
  /\ entry = "profile_table"
  /\ pc = "call"
  /\ IF profile_table_raises(file)
     THEN pc' = "raise" /\ result' = result
     ELSE /\ pc' = "return"
          /\ \E orders \in table_orders(file) :
               result' = profile_table("dim_customer", file, "gold", orders)
  /\ UNCHANGED <<entry, col_name, values, total_rows, file, all_profiles, data_dir,
                 position, out_dir>>

SpecProfileTable == InitProfileTable /\ [][ProfileTable]_vars

(***************************************************************************)
(* main: the table map                                                     *)
(***************************************************************************)
table_map ==
  << [layer |-> "bronze",
      tables |-> <<"core_banking_customers", "salesforce_accounts", "fiserv_parties">>],
     [layer |-> "gold",
      tables |-> <<"dim_customer", "dim_account", "dim_product", "dim_date",
                   "fact_transactions", "fact_loan_payments", "fact_credit_risk">>],
     [layer |-> "clickstream", tables |-> <<"digital_events">>],
     [layer |-> "fraud", tables |-> <<"fraud_alerts">>],
     [layer |-> "partners", tables |-> <<"partner_performance">>],
     [layer |-> "realtime", tables |-> <<"hourly_metrics">>],
     [layer |-> "mdm", tables |-> <<"mdm_match_pairs">>] >>

RECURSIVE discovery_order(_)
\* the (layer, table) pairs in the order of main's nested loops
discovery_order(m) ==
  IF m = <<>> THEN <<>>
  ELSE [i \in 1..Len(Head(m).tables) |->
          [layer |-> Head(m).layer, table_name |-> Head(m).tables[i]]]
       \o discovery_order(Tail(m))

Discovered == discovery_order(table_map)

(***************************************************************************)
(* Entry point: generate_quality_report(all_profiles)                      *)
(***************************************************************************)
\* most table profiles in a list given to generate_quality_report
MaxTables == 3

ReportScores == {650, 800, 1000}

ReportRows == {0, 10}

\* the i-th profile of a list: the i-th table of the map, with some score and
\* row count
ReportProfiles(i) ==
  {[table_name    |-> Discovered[i + 1].table_name,
    layer         |-> Discovered[i + 1].layer,
    total_rows    |-> r,
    total_columns |-> 2,
    quality_score |-> q,
    pii_summary   |-> [l \in {"PII", "PUBLIC"} |-> 1],
    columns       |-> <<>>] : q \in ReportScores, r \in ReportRows}

ReportInputs ==
  UNION {{ps \in [1..k -> UNION {ReportProfiles(i) : i \in 1..k}] :
            \A i \in 1..k : ps[i] \in ReportProfiles(i)} : k \in 0..MaxTables}

InitQualityReport ==
  /\ entry = "generate_quality_report"
  /\ pc = "call"
  /\ all_profiles \in ReportInputs
  /\ IdleColumn /\ IdleTable /\ IdleMain
  /\ result = NoInput

GenerateQualityReport ==
  /\ entry = "generate_quality_report"
  /\ pc = "call"
  /\ IF quality_report_raises(all_profiles)
     THEN pc' = "raise" /\ result' = result
     ELSE pc' = "return" /\ result' = generate_quality_report(all_profiles)
  /\ UNCHANGED <<entry, col_name, values, total_rows, file, all_profiles, data_dir,
                 position, out_dir>>

SpecQualityReport == InitQualityReport /\ [][GenerateQualityReport]_vars

(***************************************************************************)
(* Entry point: main()                                                     *)
(***************************************************************************)
\* most tables of the map whose file is missing or has zero bytes
MaxIrregular == 2

\* the file of a table that is there and has a header line
RegularFile(i) ==
  [exists     |-> TRUE,
   header     |-> TRUE,
   fieldnames |-> IF i % 2 = 1
                  THEN << <<"c","u","s","t","o","m","e","r","_","i","d">>,
                          <<"e","m","a","i","l">> >>
                  ELSE << <<"b","a","l","a","n","c","e">> >>,
   rows       |-> IF i % 2 = 1
                  THEN SubSeq(<< << <<"2">>, <<"a","b","c">> >>,
                                 << <<"2">>, <<>> >>,
                                 << <<"2">>, <<"t","r","u","e">> >> >>, 1, 1 + (i % 3))
                  ELSE SubSeq(<< << <<"1",".","5">> >>, << <<>> >>, << <<"1",".","5">> >> >>,
                              1, 1 + (i % 3))]

\* the data directories: at most MaxIrregular tables without a regular file,
\* or no file at all
DataDirs ==
  {[i \in 1..Len(Discovered) |-> NoFile]} \cup
  UNION {{[i \in 1..Len(Discovered) |-> IF i \in S THEN kind[i] ELSE RegularFile(i)] :
            kind \in [S -> {NoFile, ZeroByteFile}]} :
         S \in {T \in SUBSET (1..Len(Discovered)) : Cardinality(T) <= MaxIrregular}}

InitMain ==
  /\ entry = "main"
  /\ pc = "loop"
  /\ data_dir \in DataDirs
  /\ position = 1
  /\ all_profiles = <<>>
  /\ out_dir = EmptyOutDir
  /\ IdleColumn /\ IdleTable
  /\ result = NoInput

\* a plausible slip: no test for the file, so that opening it ends main
MainMissingAborts ==
  /\ entry = "main" /\ pc = "loop"
  /\ position <= Len(Discovered)
  /\ ~data_dir[position].exists
  /\ pc' = "raise"
  /\ UNCHANGED <<entry, col_name, values, total_rows, file, all_profiles, data_dir,
                 position, out_dir, result>>

\* an iteration of the loop on a table without a file: "Missing", continue
MainMissing ==
  /\ entry = "main" /\ pc = "loop"
  /\ position <= Len(Discovered)
  /\ ~data_dir[position].exists
  /\ position' = position + 1
  /\ UNCHANGED <<entry, pc, col_name, values, total_rows, file, all_profiles, data_dir,
                 out_dir, result>>

\* an iteration of the loop on a table with a file: profile it, append the
\* profile, write it; an exception of profile_table ends main
MainProfile ==
  /\ entry = "main" /\ pc = "loop"
  /\ position <= Len(Discovered)
  /\ data_dir[position].exists
  /\ IF profile_table_raises(data_dir[position])
     THEN pc' = "raise" /\ UNCHANGED <<all_profiles, out_dir, position>>
     ELSE /\ \E orders \in table_orders(data_dir[position]) :
               all_profiles' =
                 Append(all_profiles,
                        profile_table(Discovered[position].table_name, data_dir[position],
                                      Discovered[position].layer, orders))
          /\ out_dir' = [out_dir EXCEPT
                           !.profiles = @ \cup {Discovered[position].table_name}]
          /\ position' = position + 1
          /\ pc' = pc
  /\ UNCHANGED <<entry, col_name, values, total_rows, file, data_dir, result>>

\* after the loop: master catalogue, quality report, glossary, lineage map;
\* an exception of generate_quality_report ends main after the first
MainAggregate ==
  /\ entry = "main" /\ pc = "loop"
  /\ position = Len(Discovered) + 1
  /\ IF quality_report_raises(all_profiles)
     THEN /\ pc' = "raise"
          /\ out_dir' = [out_dir EXCEPT !.master = [written |-> TRUE, value |-> all_profiles]]
     ELSE /\ pc' = "done"
          /\ out_dir' = [out_dir EXCEPT
                           !.master   = [written |-> TRUE, value |-> all_profiles],
                           !.report   = [written |-> TRUE,
                                         value |-> generate_quality_report(all_profiles)],
                           !.glossary = [written |-> TRUE,
                                         value |-> generate_glossary_export(all_profiles)],
                           !.lineage  = TRUE]
  /\ UNCHANGED <<entry, col_name, values, total_rows, file, all_profiles, data_dir,
                 position, result>>

SpecMain == InitMain /\ [][MainMissing \/ MainProfile \/ MainAggregate]_vars

(***************************************************************************)
(* Every entry point                                                       *)
(***************************************************************************)
Init ==
  \/ InitClassify
  \/ InitInferType
  \/ InitProfileColumn
  \/ InitProfileTable
  \/ InitQualityReport
  \/ InitMain

Next ==
  \/ ClassifyPii
  \/ InferType
  \/ ProfileColumn
  \/ ProfileTable
  \/ GenerateQualityReport
  \/ MainMissing
  \/ MainProfile
  \/ MainAggregate

Spec == Init /\ [][Next]_vars

(***************************************************************************)
(* Properties                                                              *)
(***************************************************************************)
ColumnReturned == entry = "profile_column" /\ pc = "return"

\* a value is blank when it is empty or made of whitespace only
IsBlank(v) == \A i \in 1..Len(v) : v[i] \in {" ", "\t"}

\* the number of values of the profiled column that are not blank
NonBlankCount ==
  seq_sum([i \in 1..Len(values) |-> IF IsBlank(values[i].v) THEN 0 ELSE values[i].n])

\* the number of values of the profiled column
ValueCount == seq_sum([i \in 1..Len(values) |-> values[i].n])

NumericKeys == {"min", "max", "mean", "median", "std_dev"}

\* C1: for every column whose name is classified PII or SPII and every value
\* sequence, boolean ones included, sample_values holds only the masked
\* sentinel and top_values, when present, is exactly one entry whose value
\* is the sentinel with pct 100.
C1_Masking ==
  (ColumnReturned /\ result.pii_classification \in {"PII", "SPII"}) =>
    /\ \A i \in 1..Len(result.sample_values) : result.sample_values[i] = MASKED
    /\ "top_values" \in DOMAIN result =>
         /\ Len(result.top_values) = 1
         /\ result.top_values[1].value = MASKED
         /\ result.top_values[1].pct = 1000

\* a sensitive column of boolean tokens whose top_values holds a literal value
C1_BooleanLeak ==
  /\ ColumnReturned
  /\ result.pii_classification \in {"PII", "SPII"}
  /\ result.data_type = "boolean"
  /\ \E i \in 1..Len(result.top_values) :
       result.top_values[i].value = <<"t","r","u","e">>

\* C2: classify_pii returns the first level, in the order PII, SPII,
\* CONFIDENTIAL, whose exact-name list holds the name as given or one of
\* whose patterns matches the lowercased name; PUBLIC iff no level matches;
\* "risk_score" is SPII although it is a CONFIDENTIAL exact name.
C2_FirstMatchingLevel ==
  (entry = "classify_pii" /\ pc = "return") =>
    LET matches(i) ==
          \/ col_name \in PII_PATTERNS[i].columns
          \/ \E k \in 1..Len(PII_PATTERNS[i].patterns) :
               re_search(PII_PATTERNS[i].patterns[k], lower(col_name))
    IN /\ [i \in 1..Len(PII_PATTERNS) |-> PII_PATTERNS[i].level]
            = <<"PII", "SPII", "CONFIDENTIAL">>
       /\ \A i \in 1..Len(PII_PATTERNS) :
            (matches(i) /\ \A j \in 1..(i - 1) : ~matches(j))
              => result = PII_PATTERNS[i].level
       /\ (result = "PUBLIC") <=> (\A i \in 1..Len(PII_PATTERNS) : ~matches(i))
       /\ (col_name = <<"r","i","s","k","_","s","c","o","r","e">>) => result = "SPII"

\* "risk_score", an exact name of CONFIDENTIAL, classified SPII by a pattern
C2_RiskScore ==
  /\ entry = "classify_pii" /\ pc = "return"
  /\ col_name = <<"r","i","s","k","_","s","c","o","r","e">>
  /\ col_name \in PII_PATTERNS[3].columns
  /\ result = "SPII"

C4_Counts ==
  (ColumnReturned /\ ValueCount = total_rows) =>
    /\ result.total_count = total_rows
    /\ result.null_count + NonBlankCount = result.total_count
    /\ result.distinct_count <= NonBlankCount
    /\ 0 <= result.null_rate /\ result.null_rate <= 10000
    /\ 0 <= result.cardinality_ratio /\ result.cardinality_ratio <= 10000

\* a column with a whitespace-only value, an empty one and a repeated one
C4_BlankAndRepeated ==
  /\ ColumnReturned /\ ValueCount = total_rows
  /\ \E i \in 1..Len(values) : values[i].v = <<" ">>
  /\ result.null_count > 0
  /\ 0 < result.distinct_count /\ result.distinct_count < NonBlankCount

\* C5: when total_rows >= 1 and len(values) = total_rows, quality_score is
\* 100 - min(null_count / total_rows * 50, 25) - (10 if the type is unknown)
\* rounded to one decimal, so it lies in [65, 100]; ten blank rows give
\* unknown, null_rate 100.0 and quality_score 65.0.
C5_QualityScore ==
  (ColumnReturned /\ total_rows >= 1 /\ ValueCount = total_rows) =>
    LET nulls   == total_rows - NonBlankCount
        penalty == IF nulls * 50 < 25 * total_rows THEN nulls * 50 ELSE 25 * total_rows
        unknown == IF result.data_type = "unknown" THEN 10 ELSE 0
    IN /\ result.quality_score
            = round_half_even(10 * ((100 - unknown) * total_rows - penalty), total_rows)
       /\ 650 <= result.quality_score /\ result.quality_score <= 1000
       /\ (total_rows = 10 /\ NonBlankCount = 0) =>
            /\ result.data_type = "unknown"
            /\ result.null_rate = 10000
            /\ result.quality_score = 650

\* ten blank rows profiled
C5_TenBlankRows ==
  /\ ColumnReturned
  /\ total_rows = 10 /\ ValueCount = 10 /\ NonBlankCount = 0
  /\ result.quality_score = 650

\* C6: on a non-empty list avg_quality_score is the unweighted mean of the
\* tables' scores rounded to one decimal, and tables_by_quality holds every
\* input table once, by non-decreasing score; scores 80 and 100 give 90.0
\* with the 80-scored table first.
C6_QualityReport ==
  (entry = "generate_quality_report" /\ pc = "return") =>
    LET n     == Len(all_profiles)
        ranks == result.tables_by_quality
    IN /\ n > 0
       /\ result.avg_quality_score
            = round_half_even(seq_sum([i \in 1..n |-> all_profiles[i].quality_score]), n)
       /\ Len(ranks) = n
       /\ \A i \in 1..n :
            Cardinality({k \in 1..n :
                           /\ ranks[k].table = all_profiles[i].table_name
                           /\ ranks[k].score = all_profiles[i].quality_score
                           /\ ranks[k].layer = all_profiles[i].layer}) = 1
       /\ \A k \in 1..(n - 1) : ranks[k].score <= ranks[k + 1].score
       /\ (n = 2 /\ {all_profiles[1].quality_score, all_profiles[2].quality_score}
                      = {800, 1000}) =>
            /\ result.avg_quality_score = 900
            /\ ranks[1].score = 800 /\ ranks[2].score = 1000

\* the report of a table scored 100 followed by a table scored 80
C6_EightyAndHundred ==
  /\ entry = "generate_quality_report" /\ pc = "return"
  /\ Len(all_profiles) = 2
  /\ all_profiles[1].quality_score = 1000 /\ all_profiles[2].quality_score = 800
  /\ result.avg_quality_score = 900
  /\ result.tables_by_quality[1].table = all_profiles[2].table_name

\* C7: for a table with zero rows or zero columns profile_table does not
\* raise, every column profile has null_rate 0 and cardinality_ratio 0, and
\* the table's quality score is 0.
C7_EmptyInput ==
  (entry = "profile_table" /\ pc # "call"
     /\ (Len(file.rows) = 0 \/ Len(file.fieldnames) = 0)) =>
    /\ pc = "return"
    /\ \A c \in 1..Len(result.columns) :
         result.columns[c].null_rate = 0 /\ result.columns[c].cardinality_ratio = 0
    /\ result.quality_score = 0

\* profile_table ended by an exception on a file of zero bytes
C7_ZeroByteFileRaises ==
  /\ entry = "profile_table" /\ pc = "raise"
  /\ file = ZeroByteFile

\* C8: if profile_table raises for one table of a batch run, the table is
\* skipped and the run continues: once the run has ended, every table whose
\* source exists and profiles without error has been profiled, and the
\* master catalogue, the quality report and the glossary are written.
C8_FailedTableSkipped ==
  (/\ entry = "main" /\ pc \in {"raise", "done"}
   /\ \E i \in 1..Len(data_dir) :
        data_dir[i].exists /\ profile_table_raises(data_dir[i])
   /\ \E i \in 1..Len(data_dir) :
        data_dir[i].exists /\ ~profile_table_raises(data_dir[i])) =>
    /\ \A i \in 1..Len(data_dir) :
         (data_dir[i].exists /\ ~profile_table_raises(data_dir[i]))
           => Discovered[i].table_name \in out_dir.profiles
    /\ out_dir.master.written /\ out_dir.report.written /\ out_dir.glossary.written

\* main ended by the exception of a table, a later table with a good file
\* left unprofiled and nothing written after the loop
C8_RunAborted ==
  /\ entry = "main" /\ pc = "raise"
  /\ position <= Len(Discovered)
  /\ profile_table_raises(data_dir[position])
  /\ \E i \in (position + 1)..Len(data_dir) :
       /\ data_dir[i].exists /\ ~profile_table_raises(data_dir[i])
       /\ Discovered[i].table_name \notin out_dir.profiles
  /\ ~out_dir.master.written /\ ~out_dir.report.written /\ ~out_dir.glossary.written

\* the tables of the map whose source file exists, in discovery order
ExistingTables ==
  SelectSeq([i \in 1..Len(Discovered) |->
               [layer |-> Discovered[i].layer, table_name |-> Discovered[i].table_name,
                exists |-> data_dir[i].exists, rows |-> Len(data_dir[i].rows),
                columns |-> Len(data_dir[i].fieldnames)]],
            LAMBDA t : t.exists)

C10_AllOrNothing ==
  (ColumnReturned /\ result.data_type \in {"integer", "decimal"}) =>
    \/ NumericKeys \cap DOMAIN result = {}
    \/ NumericKeys \subseteq DOMAIN result

\* a numeric column whose variance overflows: four statistics, no std_dev
C10_NoStdDev ==
  /\ ColumnReturned
  /\ result.data_type \in {"integer", "decimal"}
  /\ NumericKeys \cap DOMAIN result = {"min", "max", "mean", "median"}

\* a numeric column with a value float() rejects beyond the sample of
\* infer_type: no statistic
C10_ParseFailureBeyondSample ==
  /\ ColumnReturned
  /\ result.data_type \in {"integer", "decimal"}
  /\ \E i \in 1..Len(values) : non_blank(values[i].v) /\ ~float(values[i].v).ok
  /\ NumericKeys \cap DOMAIN result = {}

\* the call of infer_type has returned
InferReturned == entry = "infer_type" /\ pc = "return"

\* the non-blank values among the first k non-blank values of the column,
\* one per position
NonBlankPrefix(k) ==
  LET runs  == SelectSeq(values, LAMBDA r : ~IsBlank(r.v))
      upto(j) == seq_sum([i \in 1..j |-> runs[i].n])
      total == upto(Len(runs))
  IN [p \in 1..(IF total < k THEN total ELSE k) |->
        runs[CHOOSE j \in 1..Len(runs) : upto(j - 1) < p /\ p <= upto(j)].v]

\* the conditions of the rules of infer_type on a prefix s
BooleanRule(s) == \A p \in 1..Len(s) : s[p] \in BOOLS

DateRule(s) ==
  \/ \A p \in 1..Len(s) : match_date(s[p])
  \/ \A p \in 1..Len(s) : match_datetime(s[p])

FiniteNumber(v) == float(v).ok /\ ~int_raises(float(v))

NumericRule(s) ==
  /\ \A p \in 1..Len(s) : float(s[p]).ok
  /\ \A p \in 1..Len(s) :
       int_raises(float(s[p])) =>
         \E q \in 1..(p - 1) : FiniteNumber(s[q]) /\ ~is_integral(float(s[q]))

IdentifierRule(s) == \A p \in 1..Len(s) : match_identifier(s[p])

EmailRule(s) == \E p \in 1..Len(s) : \E i \in 1..Len(s[p]) : s[p][i] = "@"

PhoneRule(s) == \E p \in 1..Len(s) : s[p][1] = "+"

\* C11: infer_type returns unknown iff there is no non-blank value;
\* otherwise the result of the first rule, in the order boolean,
\* date/datetime, integer/decimal, identifier, email, phone, string, whose
\* condition holds on the first 50, 20, 100, 10, 10, 10 non-blank values.
\* Values beyond a prefix do not count: a column whose first 100 non-blank
\* values are numbers and whose earlier rules do not fire is integer or
\* decimal whatever follows.
C11_FirstRuleOnItsPrefix ==
  InferReturned =>
    /\ (result = "unknown") <=> (NonBlankPrefix(1) = <<>>)
    /\ NonBlankPrefix(1) # <<>> =>
         result =
           IF BooleanRule(NonBlankPrefix(50)) THEN "boolean"
           ELSE IF DateRule(NonBlankPrefix(20))
             THEN IF \E i \in 1..Len(NonBlankPrefix(1)[1]) : NonBlankPrefix(1)[1][i] = "T"
                  THEN "datetime" ELSE "date"
           ELSE IF NumericRule(NonBlankPrefix(100))
             THEN IF \A p \in 1..Len(NonBlankPrefix(100)) :
                       is_integral(float(NonBlankPrefix(100)[p]))
                  THEN "integer" ELSE "decimal"
           ELSE IF IdentifierRule(NonBlankPrefix(10)) THEN "identifier"
           ELSE IF EmailRule(NonBlankPrefix(10)) THEN "email"
           ELSE IF PhoneRule(NonBlankPrefix(10)) THEN "phone"
           ELSE "string"
    /\ (/\ Len(NonBlankPrefix(100)) = 100
        /\ \A p \in 1..100 : FiniteNumber(NonBlankPrefix(100)[p])
        /\ ~BooleanRule(NonBlankPrefix(50))
        /\ ~DateRule(NonBlankPrefix(20)))
         => result \in {"integer", "decimal"}

\* a hundred integers followed by a value that is no number: integer
C11_NonNumericBeyondSample ==
  /\ InferReturned
  /\ values = << [v |-> <<"2">>, n |-> 100], [v |-> <<"a","b","c">>, n |-> 1] >>
  /\ result = "integer"

\* C12: infer_type returns boolean whenever every one of the first 50
\* non-blank values is, whatever its case, one of the tokens true, false,
\* 1, 0, yes, no.
C12_BooleanAnyCase ==
  (/\ InferReturned
   /\ NonBlankPrefix(50) # <<>>
   /\ \A p \in 1..Len(NonBlankPrefix(50)) :
        lower(NonBlankPrefix(50)[p]) \in
          { <<"t","r","u","e">>, <<"f","a","l","s","e">>, <<"1">>, <<"0">>,
            <<"y","e","s">>, <<"n","o">> })
    => result = "boolean"

\* a column of the token "Yes", typed string
C12_YesIsString ==
  /\ InferReturned
  /\ values = << [v |-> <<"Y","e","s">>, n |-> 1] >>
  /\ result = "string"

\* C13: for a column that is not boolean and whose first 20 non-blank
\* values each match YYYY-MM-DD or YYYY-MM-DD followed by T, infer_type
\* returns date when none of them contains a T and datetime when at least
\* one does, a mix of plain dates and datetimes included.
C13_DateOrDatetime ==
  (/\ InferReturned
   /\ NonBlankPrefix(20) # <<>>
   /\ ~BooleanRule(NonBlankPrefix(50))
   /\ \A p \in 1..Len(NonBlankPrefix(20)) :
        match_date(NonBlankPrefix(20)[p]) \/ match_datetime(NonBlankPrefix(20)[p]))
    => result =
         IF \E p \in 1..Len(NonBlankPrefix(20)) :
              \E i \in 1..Len(NonBlankPrefix(20)[p]) : NonBlankPrefix(20)[p][i] = "T"
         THEN "datetime" ELSE "date"

\* a plain date followed by a datetime, typed string
C13_MixedIsString ==
  /\ InferReturned
  /\ values = << [v |-> <<"2","0","2","4","-","0","1","-","0","1">>, n |-> 1],
                 [v |-> <<"2","0","2","4","-","0","1","-","0","1","T","0","0">>, n |-> 1] >>
  /\ result = "string"

====
